---- MODULE Spec2Model ----
(***************************************************************************)
(* Model of the shift-booking batch pipeline of src/main.py: intake        *)
(* (book_shifts), the durable store (tables shift_requests and             *)
(* individual_shifts), the dispatcher (process_shift_request_background),  *)
(* the per-item worker (process_single_shift) and the progress aggregate   *)
(* (update_request_progress).                                              *)
(*                                                                         *)
(* Granularity.  The program is a single asyncio event loop talking to a   *)
(* database through a connection pool.  A coroutine runs without           *)
(* interruption up to its next await that really suspends; every SQL       *)
(* statement is executed by the database on its own (no transaction is     *)
(* opened anywhere in the source), so statements of different coroutines   *)
(* interleave freely.  Each action below is one SQL statement or one       *)
(* sleep, together with the synchronous code that leads to it:             *)
(* requests.get and requests.post are blocking calls that do not yield,    *)
(* so the duplicate check, a booking write and the statement awaited right *)
(* after them form one action.                                             *)
(***************************************************************************)
EXTENDS Integers, Sequences, FiniteSets, TLC

VARIABLES
    requests,   \* table shift_requests: request id -> row
    items,      \* table individual_shifts: sequence of rows, index = SERIAL id
    booked,     \* the external booking service: the set of booked shifts
    intake,     \* the book_shifts call in progress
    resp,       \* the response of the last book_shifts call
    disp,       \* per request id: state of its background dispatcher
    sem,        \* per request id: value of the dispatcher's semaphore
    workers,    \* per item id: the process_single_shift coroutine's locals
    hist,       \* per item id: what the coroutine has done so far (history)
    env,        \* what the environment may do in this run; never changes
    query       \* the get_request_status call in progress and the last answer

vars == <<requests, items, booked, intake, resp, disp, sem, workers, hist, env,
          query>>

----------------------------------------------------------------------------
(* Program constants *)

MAX_RETRIES == 6
MIN_SHIFTS == 10
SEM_SLOTS == 5

(* Bounds of the model *)

\* the first MaxFlaky items of a batch are those whose booking write the
\* service may fail
MaxFlaky == 1
\* the first MaxGetFail items of a batch are those whose existing-bookings
\* read may fail
MaxGetFail == 1
\* the first MaxRacy items of a batch are those for which the database may
\* run statements of other coroutines between the SELECT and the UPDATE of
\* update_request_progress
MaxRacy == 1
\* number of book_shifts calls that may be rejected in a run
MaxRejects == 1
\* a second batch is submitted while at most MaxOverlap coroutines of the
\* first request have not ended
MaxOverlap == 1

\* the request ids uuid4 produces in a run, named in the order of issue
RequestIds == {"r1", "r2"}
FreshId(reqs) == IF "r1" \notin DOMAIN reqs THEN "r1" ELSE "r2"

NULL == "NULL"

----------------------------------------------------------------------------
(* Shifts *)

Shift(c, u, s, e, a) ==
    [companyId |-> c, userId |-> u, startTime |-> s, endTime |-> e, action |-> a]

\* ten shifts in the shape of sample_shifts; the sixth has the identity of
\* the first and another action
TenShifts ==
    << Shift("acme", "u1", "t08", "t16", "add"),
       Shift("tech", "u2", "t09", "t17", "add"),
       Shift("work", "u3", "t10", "t18", "add"),
       Shift("name", "u4", "t11", "t19", "add"),
       Shift("juice", "u5", "t12", "t20", "add"),
       Shift("acme", "u1", "t08", "t16", "swap"),
       Shift("acme", "u7", "t14", "t22", "add"),
       Shift("acme", "u8", "t15", "t23", "add"),
       Shift("acme", "u9", "t08", "t16", "add"),
       Shift("acme", "u10", "t09", "t17", "add") >>

NineShifts == SubSeq(TenShifts, 1, MIN_SHIFTS - 1)

\* the bodies a client submits
Batches == {TenShifts, NineShifts}

\* what the external service holds before the run: shifts that differ from
\* items 1..5 in exactly one field, with or without the first item's shift
NearMisses ==
    << Shift("acme", "u0", "t08", "t16", "add"),
       Shift("acme", "u2", "t09", "t17", "add"),
       Shift("work", "u9", "t10", "t18", "add"),
       Shift("name", "u4", "t12", "t19", "add"),
       Shift("juice", "u5", "t12", "t21", "add") >>

Range(seq) == {seq[k] : k \in DOMAIN seq}

InitialBooked == { Range(NearMisses), Range(NearMisses) \cup {TenShifts[1]} }

\* the order in which the service lists the shifts it holds
ListingOrder == NearMisses \o TenShifts

\* the service's answer to GET /shifts: the shifts it holds, as a list
ServiceList(held) == SelectSeq(ListingOrder, LAMBDA x : x \in held)

\* The environments a run is checked in: one where the database interleaves
\* the two statements of update_request_progress of some coroutines, one
\* where booking writes fail, one where clients ask for the status, and one
\* where existing-bookings reads fail, shifts are booked beforehand and
\* clients send bodies that are rejected.
Scenarios ==
    { [flaky |-> {}, getFail |-> {}, racy |-> 1..MaxRacy, rejects |-> 0,
       queries |-> FALSE, batches |-> 1, overlap |-> 0,
       booked |-> Range(NearMisses)],
      [flaky |-> 1..MaxFlaky, getFail |-> {}, racy |-> {}, rejects |-> 0,
       queries |-> FALSE, batches |-> 1, overlap |-> 0,
       booked |-> Range(NearMisses)],
      [flaky |-> {}, getFail |-> {}, racy |-> {}, rejects |-> 0,
       queries |-> TRUE, batches |-> 1, overlap |-> 0,
       booked |-> Range(NearMisses)] }
    \cup
    { [flaky |-> {}, getFail |-> 1..MaxGetFail, racy |-> {},
       rejects |-> MaxRejects, queries |-> FALSE, batches |-> 1,
       overlap |-> 0, booked |-> b] :
         b \in InitialBooked }

\* no get_request_status call in progress, and the last answer given
IdleQuery(answer) ==
    [pc |-> "idle", text |-> NULL, uuid |-> NULL, info |-> NULL,
     answer |-> answer]

NoAnswer == [code |-> "none", looked |-> FALSE]

\* the 4-tuple equality of shift_exists' loop body
SameShift(existing_shift, shift) ==
    /\ existing_shift.companyId = shift.companyId
    /\ existing_shift.userId = shift.userId
    /\ existing_shift.startTime = shift.startTime
    /\ existing_shift.endTime = shift.endTime

\* a shift_exists that looks at the first list entry only
ShiftExistsFirstOnly(shift, existing_shifts) ==
    existing_shifts # <<>> /\ SameShift(Head(existing_shifts), shift)

\* shift_exists: the loop over the list, first match returns True
RECURSIVE ShiftExists(_, _)
ShiftExists(shift, existing_shifts) ==
    IF existing_shifts = <<>> THEN FALSE
    ELSE IF SameShift(Head(existing_shifts), shift) THEN TRUE
    ELSE ShiftExists(shift, Tail(existing_shifts))

\* a read whose failure still hands over what the service holds
GetExistingShiftsDespiteFailure(ok) == ServiceList(booked)

\* get_existing_shifts: the list, or [] when the read raises
GetExistingShifts(ok) == IF ok THEN ServiceList(booked) ELSE <<>>

----------------------------------------------------------------------------
(* The store *)

\* INSERT INTO shift_requests (id, total_shifts, status): the other columns
\* take the table's defaults
InsertRequest(reqs, rid, total, status) ==
    [r \in DOMAIN reqs \cup {rid} |->
        IF r = rid
        THEN [status |-> status, total_shifts |-> total, processed |-> 0,
              successful |-> 0, failed |-> 0, completed_at |-> NULL]
        ELSE reqs[r]]

\* INSERT INTO individual_shifts: status, attempts, error_message and
\* processed_at take the table's defaults
InsertShift(its, rid, shift) ==
    Append(its, [request_id |-> rid, shift |-> shift, status |-> "pending",
                 attempts |-> 0, error_message |-> NULL, processed_at |-> NULL])

\* an update_shift_status that leaves the attempts column alone
UpdateShiftStatusWithoutAttempts(its, shift_id, status, attempts, error_message) ==
    [its EXCEPT ![shift_id] =
        [@ EXCEPT !.status = status, !.error_message = error_message,
                  !.processed_at = "now"]]

\* an update_shift_status whose WHERE names the request instead of the row
UpdateShiftStatusByRequest(its, shift_id, status, attempts, error_message) ==
    [j \in DOMAIN its |->
        IF its[j].request_id = its[shift_id].request_id
        THEN [its[j] EXCEPT !.status = status, !.attempts = attempts,
                            !.error_message = error_message,
                            !.processed_at = "now"]
        ELSE its[j]]

\* update_shift_status: UPDATE individual_shifts ... WHERE id = shift_id
UpdateShiftStatus(its, shift_id, status, attempts, error_message) ==
    [its EXCEPT ![shift_id] =
        [@ EXCEPT !.status = status, !.attempts = attempts,
                  !.error_message = error_message, !.processed_at = "now"]]

\* the rows of one request
RowsOf(its, rid) == {i \in DOMAIN its : its[i].request_id = rid}

\* an aggregate whose processed count has lost its FILTER
CountRowsUnfiltered(its, rid) ==
    [total      |-> Cardinality(RowsOf(its, rid)),
     processed  |-> Cardinality(RowsOf(its, rid)),
     successful |-> Cardinality({i \in RowsOf(its, rid) : its[i].status = "success"}),
     failed     |-> Cardinality({i \in RowsOf(its, rid) : its[i].status = "failed"})]

\* update_request_progress, the aggregating SELECT
CountRows(its, rid) ==
    [total      |-> Cardinality(RowsOf(its, rid)),
     processed  |-> Cardinality({i \in RowsOf(its, rid) : its[i].status # "pending"}),
     successful |-> Cardinality({i \in RowsOf(its, rid) : its[i].status = "success"}),
     failed     |-> Cardinality({i \in RowsOf(its, rid) : its[i].status = "failed"})]

\* a choice that says completed one item early
OverallStatusOneShort(counts) ==
    IF counts.processed >= counts.total - 1
    THEN [status |-> "completed", completed_at |-> "now"]
    ELSE [status |-> "processing", completed_at |-> NULL]

\* a choice that stamps completed_at whatever the counts are
OverallStatusAlwaysStamped(counts) ==
    IF counts.processed = counts.total
    THEN [status |-> "completed", completed_at |-> "now"]
    ELSE [status |-> "processing", completed_at |-> "now"]

\* update_request_progress, the choice of overall_status and completed_at
OverallStatus(counts) ==
    IF counts.processed = counts.total
    THEN [status |-> "completed", completed_at |-> "now"]
    ELSE [status |-> "processing", completed_at |-> NULL]

\* an UPDATE of shift_requests that has lost its WHERE
UpdateRequestEveryRow(reqs, rid, counts) ==
    [r \in DOMAIN reqs |->
        [reqs[r] EXCEPT !.processed = counts.processed,
                        !.successful = counts.successful,
                        !.failed = counts.failed,
                        !.status = OverallStatus(counts).status,
                        !.completed_at = OverallStatus(counts).completed_at]]

\* update_request_progress, the UPDATE of shift_requests WHERE id = request_id
UpdateRequest(reqs, rid, counts) ==
    [reqs EXCEPT ![rid] =
        [@ EXCEPT !.processed = counts.processed,
                  !.successful = counts.successful,
                  !.failed = counts.failed,
                  !.status = OverallStatus(counts).status,
                  !.completed_at = OverallStatus(counts).completed_at]]

NoCounts == [total |-> 0, processed |-> 0, successful |-> 0, failed |-> 0]

----------------------------------------------------------------------------
(* Initial state: empty tables, no call in progress *)

IdleIntake == [pc |-> "idle", rid |-> NULL, shifts |-> <<>>, k |-> 0]

\* the start of a run in one of the environments runs
InitIn(runs) ==
    /\ requests = <<>>
    /\ items = <<>>
    /\ env \in runs
    /\ booked = env.booked
    /\ intake = IdleIntake
    /\ resp = [code |-> "none", total |-> 0, rejects |-> 0]
    /\ disp = [r \in RequestIds |-> "none"]
    /\ sem = [r \in RequestIds |-> 0]
    /\ workers = <<>>
    /\ hist = <<>>
    /\ query = IdleQuery(NoAnswer)

Init == InitIn(Scenarios)

----------------------------------------------------------------------------
(* Intake: book_shifts *)

\* a length check that lets nine shifts through
TooFewOffByOne(shifts) == Len(shifts) < MIN_SHIFTS - 1

\* the length check
TooFew(shifts) == Len(shifts) < MIN_SHIFTS

\* the coroutines of request r that have not ended
Running(r) == {i \in RowsOf(items, r) : workers[i].pc # "done"}

\* a call: with too few shifts, HTTPException 400 and nothing else; else a
\* fresh request id and the first statement, the INSERT of the request row
BookShifts(shifts) ==
    IF TooFew(shifts)
    THEN /\ resp.rejects < env.rejects
         /\ resp' = [code |-> "400", total |-> Len(shifts),
                     rejects |-> resp.rejects + 1]
         /\ UNCHANGED <<requests, items, booked, intake, disp, sem, workers,
                        hist, env, query>>
    ELSE /\ intake.pc = "idle"
         /\ Cardinality(DOMAIN requests) < env.batches
         /\ \A r \in DOMAIN requests : Cardinality(Running(r)) <= env.overlap
         /\ LET rid == FreshId(requests) IN
               /\ requests' = InsertRequest(requests, rid, Len(shifts), "pending")
               /\ intake' = [pc |-> "inserting", rid |-> rid, shifts |-> shifts,
                             k |-> 1]
         /\ UNCHANGED <<items, booked, resp, disp, sem, workers, hist, env, query>>

\* a loop that schedules the dispatcher with its first INSERT
BookShiftsInsertTaskFirst ==
    /\ intake.pc = "inserting"
    /\ items' = InsertShift(items, intake.rid, intake.shifts[intake.k])
    /\ workers' = Append(workers, [pc |-> "none", attempt |-> 0, counts |-> NoCounts])
    /\ hist' = Append(hist, [posts |-> 0, fails |-> 0, writes |-> 0, matched |-> FALSE,
                             getFailed |-> FALSE])
    /\ disp' = [disp EXCEPT ![intake.rid] =
                  IF intake.k = 1 THEN "scheduled" ELSE @]
    /\ IF intake.k < Len(intake.shifts)
       THEN /\ intake' = [intake EXCEPT !.k = @ + 1]
            /\ UNCHANGED resp
       ELSE /\ intake' = IdleIntake
            /\ resp' = [resp EXCEPT !.code = "accepted", !.total = Len(intake.shifts)]
    /\ UNCHANGED <<requests, booked, sem, env, query>>

\* one turn of the loop over the shifts: the INSERT of one item row; after
\* the last one the dispatcher is scheduled and the response returned
BookShiftsInsert ==
    /\ intake.pc = "inserting"
    /\ items' = InsertShift(items, intake.rid, intake.shifts[intake.k])
    /\ workers' = Append(workers, [pc |-> "none", attempt |-> 0, counts |-> NoCounts])
    /\ hist' = Append(hist, [posts |-> 0, fails |-> 0, writes |-> 0, matched |-> FALSE,
                             getFailed |-> FALSE])
    /\ IF intake.k < Len(intake.shifts)
       THEN /\ intake' = [intake EXCEPT !.k = @ + 1]
            /\ UNCHANGED <<resp, disp>>
       ELSE /\ intake' = IdleIntake
            /\ disp' = [disp EXCEPT ![intake.rid] = "scheduled"]
            /\ resp' = [resp EXCEPT !.code = "accepted", !.total = Len(intake.shifts)]
    /\ UNCHANGED <<requests, booked, sem, env, query>>

----------------------------------------------------------------------------
(* Dispatcher: process_shift_request_background *)

\* SELECT ... WHERE request_id = $1 AND status = 'pending'
PendingRows(its, rid) == {i \in RowsOf(its, rid) : its[i].status = "pending"}

\* the background task starts: it loads the pending rows, makes one
\* coroutine per row and a semaphore of 5; gather then starts them in order
LoadPending(rid) ==
    /\ disp[rid] = "scheduled"
    /\ disp' = [disp EXCEPT ![rid] = "running"]
    /\ sem' = [sem EXCEPT ![rid] = SEM_SLOTS]
    /\ workers' = [i \in DOMAIN workers |->
                     IF i \in PendingRows(items, rid)
                     THEN [workers[i] EXCEPT !.pc = "queued"]
                     ELSE workers[i]]
    /\ UNCHANGED <<requests, items, booked, intake, resp, hist, env, query>>

\* a semaphore that never blocks
CanAcquireNoLimit(i) ==
    \A j \in DOMAIN workers :
       (items[j].request_id = items[i].request_id /\ workers[j].pc = "queued")
          => i <= j

\* asyncio.Semaphore: a slot is free, and the waiters are served first come
\* first served (the coroutines were started in the order of the rows)
CanAcquire(i) ==
    /\ sem[items[i].request_id] > 0
    /\ \A j \in DOMAIN workers :
          (items[j].request_id = items[i].request_id /\ workers[j].pc = "queued")
             => i <= j

\* the items a semaphore slot is held for
Active(rid) ==
    {i \in RowsOf(items, rid) : workers[i].pc \in {"sleep", "read", "write"}}

----------------------------------------------------------------------------
(* Worker: process_single_shift *)

\* the outcomes the environment can give
GetOutcomes(i) == IF i \in env.getFail THEN {TRUE, FALSE} ELSE {TRUE}
PostOutcomes(i) == IF i \in env.flaky THEN {TRUE, FALSE} ELSE {TRUE}

\* a loop that makes one turn too many
RetriesLeftOneMore(attempt) == attempt < MAX_RETRIES

\* whether the loop `for attempt in range(MAX_RETRIES)` goes on after a
\* failure at index attempt
RetriesLeft(attempt) == attempt < MAX_RETRIES - 1

\* an attempts count that forgets the loop index starts at 0
AttemptsUsedZeroBased(attempt) == attempt

\* the attempts recorded on success at loop index attempt
AttemptsUsed(attempt) == attempt + 1

\* a retry loop whose last failure cancels the coroutines of the request
\* that still wait for a slot
AttemptCancelling(i, attempt, ok, h) ==
    /\ hist' = [hist EXCEPT ![i] =
                  [h EXCEPT !.posts = @ + 1,
                            !.fails = IF ok THEN @ ELSE @ + 1,
                            !.writes = IF ok \/ ~RetriesLeft(attempt)
                                       THEN @ + 1 ELSE @]]
    /\ IF ok
       THEN /\ booked' = booked \cup {items[i].shift}
            /\ items' = UpdateShiftStatus(items, i, "success", AttemptsUsed(attempt), NULL)
            /\ workers' = [workers EXCEPT ![i].pc = "read", ![i].attempt = attempt]
       ELSE IF RetriesLeft(attempt)
       THEN /\ workers' = [workers EXCEPT ![i].pc = "sleep", ![i].attempt = attempt]
            /\ UNCHANGED <<booked, items>>
       ELSE /\ items' = UpdateShiftStatus(items, i, "failed", MAX_RETRIES,
                                          "Max retries exceeded")
            /\ workers' = [j \in DOMAIN workers |->
                             IF j = i
                             THEN [workers[j] EXCEPT !.pc = "read", !.attempt = attempt]
                             ELSE IF workers[j].pc = "queued"
                                     /\ items[j].request_id = items[i].request_id
                             THEN [workers[j] EXCEPT !.pc = "done"]
                             ELSE workers[j]]
            /\ UNCHANGED booked

\* one turn of the retry loop at index attempt (0-based): the booking write,
\* then the item's terminal UPDATE (success, or failed after the last turn)
\* or the sleep before the next turn
Attempt(i, attempt, ok, h) ==
    /\ hist' = [hist EXCEPT ![i] =
                  [h EXCEPT !.posts = @ + 1,
                            !.fails = IF ok THEN @ ELSE @ + 1,
                            !.writes = IF ok \/ ~RetriesLeft(attempt)
                                       THEN @ + 1 ELSE @]]
    /\ IF ok
       THEN /\ booked' = booked \cup {items[i].shift}
            /\ items' = UpdateShiftStatus(items, i, "success", AttemptsUsed(attempt), NULL)
            /\ workers' = [workers EXCEPT ![i].pc = "read", ![i].attempt = attempt]
       ELSE IF RetriesLeft(attempt)
       THEN /\ workers' = [workers EXCEPT ![i].pc = "sleep", ![i].attempt = attempt]
            /\ UNCHANGED <<booked, items>>
       ELSE /\ items' = UpdateShiftStatus(items, i, "failed", MAX_RETRIES,
                                          "Max retries exceeded")
            /\ workers' = [workers EXCEPT ![i].pc = "read", ![i].attempt = attempt]
            /\ UNCHANGED booked

\* the coroutine takes a slot and runs to its first suspension: the
\* existing-bookings read, the duplicate check, and either the skipped
\* UPDATE or the first turn of the retry loop
Start(i) ==
    /\ workers[i].pc = "queued"
    /\ CanAcquire(i)
    /\ sem' = [sem EXCEPT ![items[i].request_id] = @ - 1]
    /\ \E getOk \in GetOutcomes(i) :
          LET existing_shifts == GetExistingShifts(getOk)
              h == [hist[i] EXCEPT
                      !.getFailed = ~getOk,
                      !.matched = getOk /\ \E e \in booked :
                          <<e.companyId, e.userId, e.startTime, e.endTime>> =
                          <<items[i].shift.companyId, items[i].shift.userId,
                            items[i].shift.startTime, items[i].shift.endTime>>]
          IN IF ShiftExists(items[i].shift, existing_shifts)
             THEN /\ items' = UpdateShiftStatus(items, i, "skipped", 0,
                                                "Shift already exists")
                  /\ workers' = [workers EXCEPT ![i].pc = "read"]
                  /\ hist' = [hist EXCEPT ![i] = [h EXCEPT !.writes = @ + 1]]
                  /\ UNCHANGED booked
             ELSE \E ok \in PostOutcomes(i) : Attempt(i, 0, ok, h)
    /\ UNCHANGED <<requests, intake, resp, disp, env, query>>

\* after the sleep: the next turn of the retry loop
Retry(i) ==
    /\ workers[i].pc = "sleep"
    /\ \E ok \in PostOutcomes(i) : Attempt(i, workers[i].attempt + 1, ok, hist[i])
    /\ UNCHANGED <<requests, intake, resp, disp, sem, env, query>>

\* update_request_progress with nothing run between its two statements:
\* the aggregating SELECT and the UPDATE of the request row from its counts;
\* the coroutine then ends and frees its slot
UpdateRequestProgress(i) ==
    /\ workers[i].pc = "read"
    /\ i \notin env.racy
    /\ requests' = UpdateRequest(requests, items[i].request_id,
                                 CountRows(items, items[i].request_id))
    /\ workers' = [workers EXCEPT ![i].pc = "done"]
    /\ sem' = [sem EXCEPT ![items[i].request_id] = @ + 1]
    /\ UNCHANGED <<items, booked, intake, resp, disp, hist, env, query>>

\* update_request_progress, first statement: the aggregating SELECT
ReadCounts(i) ==
    /\ workers[i].pc = "read"
    /\ i \in env.racy
    /\ workers' = [workers EXCEPT ![i].pc = "write",
                                  ![i].counts = CountRows(items, items[i].request_id)]
    /\ UNCHANGED <<requests, items, booked, intake, resp, disp, sem, hist, env, query>>

\* update_request_progress, second statement: the UPDATE of the request row
\* from the counts read before; the coroutine then ends and frees its slot
WriteProgress(i) ==
    /\ workers[i].pc = "write"
    /\ requests' = UpdateRequest(requests, items[i].request_id, workers[i].counts)
    /\ workers' = [workers EXCEPT ![i].pc = "done"]
    /\ sem' = [sem EXCEPT ![items[i].request_id] = @ + 1]
    /\ UNCHANGED <<items, booked, intake, resp, disp, hist, env, query>>

----------------------------------------------------------------------------
(* Status query: get_request_status *)

\* the texts a client asks with: the issued id as printed and in another
\* accepted spelling, a well-formed id that was never issued, and a text
\* that is no UUID
QueryTexts == {"r1", "{R1}", "r2", "request-1"}

\* a parse that takes any text for an id
ParseUUIDAnyText(text) ==
    CASE text \in {"r1", "{R1}"} -> "r1"
      [] text \in {"r2", "{R2}"} -> "r2"
      [] OTHER -> text

\* uuid.UUID(request_id): the UUID a text spells, or ValueError
ParseUUID(text) ==
    CASE text \in {"r1", "{R1}"} -> "r1"
      [] text \in {"r2", "{R2}"} -> "r2"
      [] OTHER -> "ValueError"

\* the body of the 200 answer, from the request row and the item rows read
RequestView(text, info, shift_details) ==
    [code |-> "200", request_id |-> text, status |-> info.status,
     total_shifts |-> info.total_shifts, processed |-> info.processed,
     successful |-> info.successful, failed |-> info.failed,
     skipped |-> info.processed - info.successful - info.failed,
     completed_at |-> info.completed_at,
     shifts |-> [k \in DOMAIN shift_details |->
                   [user_id |-> shift_details[k].shift.userId,
                    company_id |-> shift_details[k].shift.companyId,
                    status |-> shift_details[k].status,
                    attempts |-> shift_details[k].attempts,
                    error_message |-> shift_details[k].error_message,
                    processed_at |-> shift_details[k].processed_at]]]

\* SELECT ... FROM individual_shifts WHERE request_id = $1 ORDER BY id
ShiftDetails(its, rid) == SelectSeq(its, LAMBDA row : row.request_id = rid)

\* a call up to its first answer or statement: the text is parsed; a text
\* that is no UUID is answered 400 before any statement; else the request
\* row is read and a miss answered 404
GetRequestStatus(text) ==
    /\ query.pc = "idle"
    /\ env.queries
    /\ LET request_uuid == ParseUUID(text) IN
          IF request_uuid = "ValueError"
          THEN query' = IdleQuery([code |-> "400", looked |-> FALSE])
          ELSE IF request_uuid \notin DOMAIN requests
          THEN query' = IdleQuery([code |-> "404", looked |-> TRUE])
          ELSE query' = [pc |-> "fetch", text |-> text, uuid |-> request_uuid,
                         info |-> requests[request_uuid],
                         answer |-> NoAnswer]
    /\ UNCHANGED <<requests, items, booked, intake, resp, disp, sem, workers,
                   hist, env>>

\* the answer a call that has read its request row gives when its second
\* statement, the item rows in id order, is run now
PendingView ==
    RequestView(query.text, query.info, ShiftDetails(items, query.uuid))

\* the second statement and the 200 answer; of the answer the state keeps
\* the code
GetRequestStatusShifts ==
    /\ query.pc = "fetch"
    /\ query' = IdleQuery([code |-> PendingView.code, looked |-> TRUE])
    /\ UNCHANGED <<requests, items, booked, intake, resp, disp, sem, workers,
                   hist, env>>

----------------------------------------------------------------------------

Next ==
    \/ \E shifts \in Batches : BookShifts(shifts)
    \/ BookShiftsInsert
    \/ \E rid \in RequestIds : LoadPending(rid)
    \/ \E i \in DOMAIN workers : Start(i)
    \/ \E i \in DOMAIN workers : Retry(i)
    \/ \E i \in DOMAIN workers : UpdateRequestProgress(i)
    \/ \E i \in DOMAIN workers : ReadCounts(i)
    \/ \E i \in DOMAIN workers : WriteProgress(i)
    \/ \E text \in QueryTexts : GetRequestStatus(text)
    \/ GetRequestStatusShifts

Spec == Init /\ [][Next]_vars

----------------------------------------------------------------------------
(* Runs in which the event loop keeps running what is ready *)

\* the item whose booking writes the service may fail in these runs
FailingItem == 3

\* an environment that fails booking writes of one item in mid-batch
FailingRun ==
    [flaky |-> {FailingItem}, getFail |-> {}, racy |-> {}, rejects |-> 0,
     queries |-> FALSE, batches |-> 1, overlap |-> 0,
     booked |-> Range(NearMisses)]

FairInit == InitIn({FailingRun})

\* the steps the event loop and the database take without a client: an
\* INSERT sent is executed, a scheduled task starts, a sleep ends, a ready
\* coroutine is resumed
Progress ==
    \/ BookShiftsInsert
    \/ \E rid \in RequestIds : LoadPending(rid)
    \/ \E i \in DOMAIN workers : Start(i)
    \/ \E i \in DOMAIN workers : Retry(i)
    \/ \E i \in DOMAIN workers : UpdateRequestProgress(i)

FairNext ==
    \/ \E shifts \in Batches : BookShifts(shifts)
    \/ Progress

FairSpec == FairInit /\ [][FairNext]_vars /\ WF_vars(Progress)

----------------------------------------------------------------------------
(* Runs with two requests *)

\* an environment in which a second batch is submitted while the last
\* coroutines of the first request run, and the database interleaves the
\* two statements of update_request_progress of the first request's last
\* coroutine
TwoRun ==
    [flaky |-> {}, getFail |-> {}, racy |-> {MIN_SHIFTS}, rejects |-> 0,
     queries |-> FALSE, batches |-> 2, overlap |-> MaxOverlap,
     booked |-> Range(NearMisses)]

TwoInit == InitIn({TwoRun})

TwoNext ==
    \/ \E shifts \in Batches : BookShifts(shifts)
    \/ BookShiftsInsert
    \/ \E rid \in RequestIds : LoadPending(rid)
    \/ \E i \in DOMAIN workers : Start(i)
    \/ \E i \in DOMAIN workers : UpdateRequestProgress(i)
    \/ \E i \in DOMAIN workers : ReadCounts(i)
    \/ \E i \in DOMAIN workers : WriteProgress(i)

TwoSpec == TwoInit /\ [][TwoNext]_vars

----------------------------------------------------------------------------
(* Properties *)

Terminal == {"success", "skipped", "failed"}

\* every coroutine of the request's dispatcher has ended
AllDone(r) ==
    /\ disp[r] = "running"
    /\ \A i \in RowsOf(items, r) : workers[i].pc = "done"

\* the coroutine of item i has left the retry loop or the duplicate check
Decided(i) == workers[i].pc \in {"read", "write", "done"}

\* C1: an accepted batch ends with processed == totalShifts, overallStatus
\* completed and successful + failed + skipped == processed in the stored
\* request row.  Stated on the states where every worker of the request has
\* ended, after which no step changes the row.
C1_FinalAggregate ==
    \A r \in DOMAIN requests :
        AllDone(r) =>
            /\ requests[r].processed = requests[r].total_shifts
            /\ requests[r].status = "completed"
            /\ requests[r].successful + requests[r].failed
                 + Cardinality({i \in RowsOf(items, r) : items[i].status = "skipped"})
               = requests[r].processed

\* C2: no step makes the stored processed, successful or failed counter of
\* a request smaller.
C2_CountersNeverDecrease ==
    [][\A r \in DOMAIN requests :
          /\ requests'[r].processed >= requests[r].processed
          /\ requests'[r].successful >= requests[r].successful
          /\ requests'[r].failed >= requests[r].failed]_vars

\* C3: in every state a request row with total_shifts = n exists exactly
\* when n item rows of that request exist.
C3_IntakeAtomic ==
    /\ \A r \in DOMAIN requests :
          Cardinality(RowsOf(items, r)) = requests[r].total_shifts
    /\ \A i \in DOMAIN items : items[i].request_id \in DOMAIN requests

\* C4: a book_shifts call with fewer than 10 shifts answers 400 and leaves
\* both tables, the call in progress and the dispatchers as they were; no
\* request row is ever stored for fewer than 10 shifts.
C4_SmallBatchRejected ==
    /\ [](\A r \in DOMAIN requests : requests[r].total_shifts >= MIN_SHIFTS)
    /\ [][\A shifts \in Batches :
             (Len(shifts) < MIN_SHIFTS /\ BookShifts(shifts)) =>
                 /\ resp'.code = "400"
                 /\ UNCHANGED <<requests, items, intake, disp, sem, workers>>]_vars

C4_Witness ==
    /\ resp.code = "400"
    /\ resp.total = MIN_SHIFTS - 1
    /\ requests = <<>>
    /\ items = <<>>

\* C5: no item is ever the subject of more than MAX_RETRIES booking writes,
\* and an item found not to be a duplicate whose booking writes all failed
\* has had exactly MAX_RETRIES of them and is recorded failed with
\* attempts = MAX_RETRIES.
C5_RetryBound ==
    \A i \in DOMAIN items :
        /\ hist[i].posts <= MAX_RETRIES
        /\ (Decided(i) /\ items[i].status # "skipped"
                /\ hist[i].fails = hist[i].posts) =>
              /\ hist[i].posts = MAX_RETRIES
              /\ items[i].status = "failed"
              /\ items[i].attempts = MAX_RETRIES

C5_Witness ==
    \E i \in DOMAIN items :
        /\ items[i].status = "failed"
        /\ hist[i].posts = MAX_RETRIES
        /\ hist[i].fails = MAX_RETRIES
        /\ workers[i].pc = "done"

\* C6: an item whose k-th booking write is the first to succeed is recorded
\* success with attempts = k, and no booking write is issued for it after
\* that.
C6_NoRetryPastSuccess ==
    /\ [](\A i \in DOMAIN items :
            /\ (hist[i].posts > hist[i].fails) =>
                  /\ items[i].status = "success"
                  /\ items[i].attempts = hist[i].fails + 1
            /\ (items[i].status = "success") =>
                  /\ hist[i].posts = hist[i].fails + 1
                  /\ items[i].attempts \in 1..MAX_RETRIES)
    /\ [][\A i \in DOMAIN items :
             (items[i].status = "success") =>
                 /\ hist'[i].posts = hist[i].posts
                 /\ items'[i].status = "success"
                 /\ items'[i].attempts = items[i].attempts]_vars

C6_Witness ==
    \E i \in DOMAIN items :
        /\ items[i].status = "success"
        /\ items[i].attempts = 3
        /\ hist[i].posts = 3
        /\ workers[i].pc = "done"

\* C7: at no time are more than 5 items of one request being processed.
C7_ConcurrencyCap ==
    \A r \in RequestIds : Cardinality(Active(r)) <= SEM_SLOTS

C7_Witness ==
    \E r \in RequestIds :
        /\ Cardinality(Active(r)) = SEM_SLOTS
        /\ \E i \in RowsOf(items, r) : workers[i].pc = "queued"
        /\ \E i \in RowsOf(items, r) : workers[i].pc = "done"

\* C8: an item whose own existing-bookings read held an entry equal to it on
\* (companyId, userId, startTime, endTime) is recorded skipped with
\* "Shift already exists" and attempts = 0, and no booking write is ever
\* issued for it.
C8_DuplicateSkipped ==
    \A i \in DOMAIN items :
        hist[i].matched =>
            /\ items[i].status = "skipped"
            /\ items[i].error_message = "Shift already exists"
            /\ items[i].attempts = 0
            /\ hist[i].posts = 0

\* a skipped item whose match was booked by an earlier item of its batch
C8_Witness ==
    \E i \in DOMAIN items :
        /\ hist[i].matched
        /\ items[i].status = "skipped"
        /\ \A e \in env.booked : ~SameShift(e, items[i].shift)
        /\ \E j \in 1..(i - 1) :
              /\ items[j].status = "success"
              /\ SameShift(items[j].shift, items[i].shift)

\* C9: an item row is written once, from pending to success, skipped or
\* failed; a row in one of these never changes again.
C9_ItemStatusOnce ==
    /\ [](\A i \in DOMAIN items :
            /\ hist[i].writes <= 1
            /\ (items[i].status = "pending") <=> (hist[i].writes = 0)
            /\ (items[i].status \in Terminal) <=> (hist[i].writes = 1))
    /\ [][\A i \in DOMAIN items :
             (items'[i] # items[i]) =>
                 /\ items[i].status = "pending"
                 /\ items'[i].status \in Terminal]_vars

C9_Witness ==
    \E i, j \in DOMAIN items :
        /\ items[i].status = "skipped" /\ workers[i].pc = "done"
        /\ items[j].status = "success" /\ workers[j].pc = "done"
        /\ hist[i].writes = 1 /\ hist[j].writes = 1

\* C10: a request row has completed_at set exactly when its status is
\* completed.
C10_CompletedAtIffCompleted ==
    \A r \in DOMAIN requests :
        (requests[r].completed_at # NULL) <=> (requests[r].status = "completed")

C10_Witness ==
    \E r \in DOMAIN requests :
        /\ requests[r].status = "completed"
        /\ requests[r].completed_at # NULL

\* the texts that spell a UUID, and those that do not
WellFormedTexts == {"r1", "{R1}", "r2"}
MalformedTexts == {"request-1"}

\* C11: a status query with a well-formed id that has no request row answers
\* 404; a query with a text that is no UUID answers 400, which is not the
\* 404 answer, without any statement being run; both leave the tables, the
\* dispatchers and the workers as they were.
C11_StatusQueryMisses ==
    [][\A text \in QueryTexts :
          GetRequestStatus(text) =>
             /\ (text \in MalformedTexts) =>
                   /\ query'.pc = "idle"
                   /\ query'.answer.code = "400"
                   /\ ~query'.answer.looked
                   /\ UNCHANGED <<requests, items, booked, disp, sem, workers>>
             /\ (text \in WellFormedTexts /\ ParseUUID(text) \notin DOMAIN requests) =>
                   /\ query'.pc = "idle"
                   /\ query'.answer.code = "404"
                   /\ query'.answer.looked
                   /\ UNCHANGED <<requests, items, booked, disp, sem, workers>>]_vars

\* a 404 answer given while another request is stored and being processed
C11_Witness ==
    /\ query.pc = "idle"
    /\ query.answer.code = "404"
    /\ query.answer.looked
    /\ \E r \in DOMAIN requests : requests[r].status = "processing"

\* C12: once an item is recorded failed after its retries, the dispatcher of
\* its request goes on: every item of the request reaches a terminal status
\* and every coroutine of the request ends.
C12_FailureIsolation ==
    (\E i \in DOMAIN items : items[i].status = "failed")
       ~> (\A r \in DOMAIN requests :
              /\ AllDone(r)
              /\ \A i \in RowsOf(items, r) : items[i].status \in Terminal)

\* an item failed after six booking writes while other items of its request
\* were still pending, and all of them terminal in the end
C12_Witness ==
    \E r \in DOMAIN requests :
        /\ AllDone(r)
        /\ \E i \in RowsOf(items, r) :
              /\ items[i].status = "failed"
              /\ hist[i].posts = MAX_RETRIES
              /\ \E j \in RowsOf(items, r) :
                    /\ j > i
                    /\ items[j].status = "success"
        /\ \A i \in RowsOf(items, r) : items[i].status \in Terminal

\* C13: no step takes a request row out of status completed, and no step
\* clears a completed_at that was set.
C13_CompletedIsFinal ==
    [][\A r \in DOMAIN requests :
          /\ (requests[r].status = "completed") =>
                (requests'[r].status = "completed")
          /\ (requests[r].completed_at # NULL) =>
                (requests'[r].completed_at # NULL)]_vars

\* C14: an item whose existing-bookings read failed is never recorded
\* skipped; at least one booking write is issued for it in the same step.
C14_FailOpen ==
    \A i \in DOMAIN items :
        hist[i].getFailed =>
            /\ ~hist[i].matched
            /\ items[i].status # "skipped"
            /\ items[i].error_message # "Shift already exists"
            /\ hist[i].posts >= 1

\* an item the service already held, booked again after its read failed
C14_Witness ==
    \E i \in DOMAIN items :
        /\ hist[i].getFailed
        /\ \E e \in env.booked : SameShift(e, items[i].shift)
        /\ items[i].status = "success"
        /\ hist[i].posts = 1
        /\ workers[i].pc = "done"

\* C15: a request row with status completed has all its item rows stored
\* and in a terminal status, and its stored processed equals total_shifts.
C15_CompletedMeansAllTerminal ==
    \A r \in DOMAIN requests :
        (requests[r].status = "completed") =>
            /\ Cardinality(RowsOf(items, r)) = requests[r].total_shifts
            /\ \A i \in RowsOf(items, r) : items[i].status \in Terminal
            /\ requests[r].processed = requests[r].total_shifts

\* a row marked completed while a coroutine of the request still holds
\* counts it read earlier
C15_Witness ==
    \E r \in DOMAIN requests :
        /\ requests[r].status = "completed"
        /\ requests[r].processed = MIN_SHIFTS
        /\ \E i \in RowsOf(items, r) :
              /\ workers[i].pc = "write"
              /\ workers[i].counts.processed < MIN_SHIFTS

\* C16: the dispatcher of a request is scheduled only once the request row
\* and all its item rows are stored, and until it starts every one of them
\* is pending; the rows it loads are exactly the total_shifts rows of the
\* request; book_shifts returns in a state where every item of the request
\* is pending.
C16_DispatchAfterIntake ==
    /\ [](\A r \in RequestIds :
            /\ (disp[r] # "none") =>
                  /\ r \in DOMAIN requests
                  /\ Cardinality(RowsOf(items, r)) = requests[r].total_shifts
            /\ (disp[r] \in {"none", "scheduled"}) =>
                  \A i \in RowsOf(items, r) :
                     items[i].status = "pending" /\ workers[i].pc = "none")
    /\ [][\A r \in RequestIds :
             /\ LoadPending(r) =>
                   /\ {i \in DOMAIN workers' :
                          workers'[i].pc = "queued" /\ workers[i].pc = "none"}
                        = RowsOf(items, r)
                   /\ Cardinality(PendingRows(items, r)) = requests[r].total_shifts
             /\ (intake.pc = "inserting" /\ intake.rid = r /\ intake'.pc = "idle") =>
                   /\ resp'.code = "accepted"
                   /\ disp'[r] = "scheduled"
                   /\ Cardinality(RowsOf(items', r)) = requests'[r].total_shifts
                   /\ \A i \in RowsOf(items', r) : items'[i].status = "pending"]_vars

\* book_shifts has returned and the dispatcher has not started yet
C16_Witness ==
    \E r \in DOMAIN requests :
        /\ resp.code = "accepted"
        /\ intake.pc = "idle"
        /\ disp[r] = "scheduled"
        /\ Cardinality(RowsOf(items, r)) = MIN_SHIFTS
        /\ \A i \in RowsOf(items, r) : items[i].status = "pending"

\* the numbers of non-pending, success and failed item rows of r now
NowProcessed(r) ==
    Cardinality({i \in RowsOf(items, r) : items[i].status # "pending"})
NowSuccessful(r) ==
    Cardinality({i \in RowsOf(items, r) : items[i].status = "success"})
NowFailed(r) ==
    Cardinality({i \in RowsOf(items, r) : items[i].status = "failed"})

\* C17: the stored processed, successful and failed of a request are at
\* most the numbers of its item rows that are now non-pending, success and
\* failed; processed is at most total_shifts; and the skipped number of the
\* status answer, from the stored row or from the row a query has read, is
\* not negative.
C17_NeverOvercounts ==
    /\ \A r \in DOMAIN requests :
          /\ requests[r].processed <= NowProcessed(r)
          /\ requests[r].successful <= NowSuccessful(r)
          /\ requests[r].failed <= NowFailed(r)
          /\ requests[r].processed <= requests[r].total_shifts
          /\ RequestView(r, requests[r], ShiftDetails(items, r)).skipped >= 0
    /\ (query.pc = "fetch") =>
          /\ PendingView.skipped >= 0
          /\ PendingView.processed <= PendingView.total_shifts

\* a query that has read a row which counts a skipped item and is behind
\* the item rows
C17_Witness ==
    /\ query.pc = "fetch"
    /\ PendingView.skipped = 1
    /\ PendingView.processed < NowProcessed(query.uuid)
    /\ requests[query.uuid].processed > PendingView.processed

\* C18: in every state, a pending or skipped item row has attempts 0; a
\* success row has attempts in 1..6, no error_message, and as many booking
\* writes as attempts; a failed row has attempts 6 and six booking writes.
C18_AttemptsAgreeWithStatus ==
    \A i \in DOMAIN items :
        /\ (items[i].status \in {"pending", "skipped"}) => items[i].attempts = 0
        /\ (items[i].status = "success") =>
              /\ items[i].attempts \in 1..MAX_RETRIES
              /\ items[i].error_message = NULL
              /\ items[i].attempts = hist[i].posts
        /\ (items[i].status = "failed") =>
              /\ items[i].attempts = MAX_RETRIES
              /\ items[i].attempts = hist[i].posts
        /\ items[i].status \in Terminal \cup {"pending"}

\* a row failed after six booking writes beside a success row and a row
\* still pending
C18_Witness ==
    /\ \E i \in DOMAIN items :
          items[i].status = "failed" /\ hist[i].posts = MAX_RETRIES
    /\ \E i \in DOMAIN items :
          items[i].status = "success" /\ hist[i].posts = 1
    /\ \E i \in DOMAIN items :
          items[i].status = "pending" /\ workers[i].pc = "queued"

\* the item rows owned by request r that satisfy P, counted row by row
OwnCount(r, P(_)) ==
    Cardinality({j \in DOMAIN items : items[j].request_id = r /\ P(items[j])})

\* the request rows and the item rows of the requests other than r are, after
\* the step, what they were before it
OthersUntouched(r) ==
    /\ \A o \in DOMAIN requests \ {r} : requests'[o] = requests[o]
    /\ \A j \in DOMAIN items :
          (items[j].request_id # r) =>
              /\ items'[j] = items[j]
              /\ workers'[j] = workers[j]
    /\ \A o \in RequestIds \ {r} : disp'[o] = disp[o] /\ sem'[o] = sem[o]

\* C19: a step of the dispatcher of request r or of one of its coroutines
\* (a step that changes the state of a coroutine of r) leaves the request
\* rows, the item rows, the dispatchers and the coroutines of the other
\* requests as they were; and the counts its aggregating SELECT reads, and
\* writes when nothing runs in between, are the counts of the item rows of
\* r alone.
C19_OnlyOwnRecords ==
    [][\A i \in DOMAIN workers :
          (workers'[i] # workers[i]) =>
             LET r == items[i].request_id IN
                /\ OthersUntouched(r)
                /\ (workers[i].pc = "read" /\ workers'[i].pc = "done") =>
                      /\ requests'[r].processed =
                            OwnCount(r, LAMBDA row : row.status # "pending")
                      /\ requests'[r].successful =
                            OwnCount(r, LAMBDA row : row.status = "success")
                      /\ requests'[r].failed =
                            OwnCount(r, LAMBDA row : row.status = "failed")
                /\ (workers[i].pc = "read" /\ workers'[i].pc = "write") =>
                      /\ workers'[i].counts.total =
                            OwnCount(r, LAMBDA row : TRUE)
                      /\ workers'[i].counts.processed =
                            OwnCount(r, LAMBDA row : row.status # "pending")]_vars

\* both requests stored, a coroutine of the first between its item UPDATE
\* and its aggregate while the second has items processed, and the two
\* rows with different counters
C19_Witness ==
    /\ DOMAIN requests = RequestIds
    /\ \E i \in DOMAIN items :
          items[i].request_id = "r1" /\ workers[i].pc = "read"
    /\ \E j \in DOMAIN items :
          items[j].request_id = "r2" /\ workers[j].pc = "read"
    /\ requests["r2"].processed >= 1
    /\ requests["r1"].processed > requests["r2"].processed
    /\ requests["r1"].successful > requests["r2"].successful

====
